---- MODULE Spec2Model ----
(***************************************************************************)
(* CaptureScript (src/cam/capture_script.cpp): the constructor opens a     *)
(* script file, maps the camera's controls by name and runs a recursive    *)
(* descent parse over the event stream of a yaml parser; frameControls()   *)
(* looks a frame number up in the table the parse built.                   *)
(*                                                                         *)
(* A text is a sequence of one-character strings, so that atoi/strtol and  *)
(* the string comparisons of the code are computed character by character. *)
(***************************************************************************)
EXTENDS Integers, Sequences, FiniteSets, TLC

VARIABLES
    camera_,        \* CaptureScript::camera_ : the controls of the camera
    pc,             \* position of the constructor / parser in the code
    valid_,         \* CaptureScript::valid_
    controls_,      \* CaptureScript::controls_ : name -> ControlId
    frameControls_, \* CaptureScript::frameControls_ : frame -> ControlList
    parser_,        \* CaptureScript::parser_ : the yaml event source
    frameId,        \* parseFrame's local frameId
    controls,       \* parseFrame's local ControlList
    it,             \* parseControl's it->second: the control last looked up
    cerr,           \* the last line written to std::cerr, without the
                    \* texts of the script it quotes
    result,         \* what the last frameControls() call returned
    firstError,     \* history: the first failure met during construction
    pulled,         \* history: the last call of yaml_parser_parse, its call
                    \* site and what it gave
    wf,             \* history: the script grammar followed over the events pulled
    unsafeRead      \* history: eventScalarValue() was given a non-scalar event

vars == <<camera_, pc, valid_, controls_, frameControls_, parser_, frameId,
          controls, it, cerr, result, firstError, pulled, wf, unsafeRead>>

-----------------------------------------------------------------------------
(* Bounds of the model.                                                    *)

\* the yaml parser produces at most MaxEvents events, then fails
MaxEvents == 14
\* nesting depth of the documents the yaml parser produces
MaxDepth == 5
\* frame numbers queried through frameControls()
MaxFrame == 1
\* the same as MaxEvents, for the longer files over few texts
MaxEventsLong == 24
\* the same, for the files the parse is followed to its end on
MaxEventsFair == 16

-----------------------------------------------------------------------------
(* Texts.                                                                  *)

Empty == <<>>
Frames == <<"f", "r", "a", "m", "e", "s">>
Shots == <<"s", "h", "o", "t", "s">>
True == <<"t", "r", "u", "e">>
False == <<"f", "a", "l", "s", "e">>
Txt0 == <<"0">>
Txt5 == <<"5">>
Txt300 == <<"3", "0", "0">>

\* names of the camera's controls
NameAwb == <<"a", "w", "b">>
NameBri == <<"b", "r", "i">>
NameGain == <<"g", "a", "i", "n">>
NameExp == <<"e", "x", "p">>
NameLux == <<"l", "u", "x">>
NameTag == <<"t", "a", "g">>
NameCrop == <<"c", "r", "o", "p">>
NameSize == <<"s", "i", "z", "e">>
NameNone == <<"n", "o", "n", "e">>

\* the scalar payloads the yaml parser may produce
Texts ==
    { Empty, Frames, Shots, True, False, Txt0, Txt5, Txt300,
      NameAwb, NameBri, NameGain, NameExp, NameLux, NameTag, NameCrop,
      NameSize, NameNone }

-----------------------------------------------------------------------------
(* The cameras: camera_->controls() is a ControlInfoMap whose keys are     *)
(* ControlId objects (id, name, type).                                     *)

AllControls ==
    { [id |-> 1, name |-> NameAwb,  type |-> "ControlTypeBool"],
      [id |-> 2, name |-> NameBri,  type |-> "ControlTypeByte"],
      [id |-> 3, name |-> NameGain, type |-> "ControlTypeInteger32"],
      [id |-> 4, name |-> NameExp,  type |-> "ControlTypeInteger64"],
      [id |-> 5, name |-> NameLux,  type |-> "ControlTypeFloat"],
      [id |-> 6, name |-> NameTag,  type |-> "ControlTypeString"],
      [id |-> 7, name |-> NameCrop, type |-> "ControlTypeRectangle"],
      [id |-> 8, name |-> NameSize, type |-> "ControlTypeSize"],
      [id |-> 9, name |-> NameNone, type |-> "ControlTypeNone"] }

OfTypes(types) == {c \in AllControls : c.type \in types}

\* the cameras a script is constructed for, by the controls they have
Cameras ==
    { OfTypes({"ControlTypeBool", "ControlTypeByte"}),
      OfTypes({"ControlTypeInteger32", "ControlTypeInteger64"}),
      OfTypes({"ControlTypeFloat", "ControlTypeString"}),
      OfTypes({"ControlTypeRectangle", "ControlTypeSize", "ControlTypeNone"}) }

\* controls_[control->name()] = control, for every control of the camera
BuildControls(camera) ==
    [n \in {c.name : c \in camera} |-> CHOOSE c \in camera : c.name = n]

\* a default constructed ControlList, and the map a failed find() stands for
EmptyList == [i \in {} |-> 0]

-----------------------------------------------------------------------------
(* Number parsing of the C library, as the code uses it.                   *)

Digits == <<"0", "1", "2", "3", "4", "5", "6", "7", "8", "9">>
IsDigit(c) == \E i \in 1..Len(Digits) : Digits[i] = c
DigitVal(c) == (CHOOSE i \in 1..Len(Digits) : Digits[i] = c) - 1
IsSpace(c) == c \in {" ", "\t", "\n"}

RECURSIVE SkipSpace(_)
SkipSpace(s) ==
    IF s # <<>> /\ IsSpace(Head(s)) THEN SkipSpace(Tail(s)) ELSE s

RECURSIVE DigitRun(_, _)
\* the value of the longest prefix of s made of digits, continuing from acc
DigitRun(s, acc) ==
    IF s # <<>> /\ IsDigit(Head(s))
    THEN DigitRun(Tail(s), acc * 10 + DigitVal(Head(s)))
    ELSE acc

\* strtol(s, NULL, 10): blanks, an optional sign, digits; 0 when no digit
\* follows.  The texts of the model are too short to leave the range of long.
Strtol(s) ==
    LET t == SkipSpace(s) IN
    IF t # <<>> /\ Head(t) = "-" THEN 0 - DigitRun(Tail(t), 0)
    ELSE IF t # <<>> /\ Head(t) = "+" THEN DigitRun(Tail(t), 0)
    ELSE DigitRun(t, 0)

\* atoi(s) is (int)strtol(s, NULL, 10)
Atoi(s) == Strtol(s)

\* strtof(s, NULL) on the texts of the model, which hold no fraction and no
\* exponent: the float of the integer strtol reads
Strtof(s) == Strtol(s)

\* a Byte that keeps the whole number read
ToUint8_NoWrap(n) == n

\* conversion to uint8_t
ToUint8(n) == n % 256

-----------------------------------------------------------------------------
(* ControlValue: the empty value, or a typed one.                          *)

NoValue == [type |-> "ControlTypeNone"]

\* a Bool control given any text but "true" and "false": the empty value
\* turned into false
UnpackBool_DefaultsToFalse(repr) ==
    [value |-> [type |-> "ControlTypeBool", val |-> repr = True],
     failure |-> FALSE]

\* a Bool control stored as a uint8_t
UnpackBool_AsByte(repr) ==
    IF repr \in {True, False}
    THEN [value |-> [type |-> "ControlTypeByte",
                     val |-> IF repr = True THEN 1 ELSE 0],
          failure |-> FALSE]
    ELSE [value |-> NoValue, failure |-> TRUE]

\* lines 288-302: the Bool case of unpackControl
UnpackBool(repr) ==
    IF repr = True
    THEN [value |-> [type |-> "ControlTypeBool", val |-> TRUE],
          failure |-> FALSE]
    ELSE IF repr = False
    THEN [value |-> [type |-> "ControlTypeBool", val |-> FALSE],
          failure |-> FALSE]
    ELSE [value |-> NoValue, failure |-> TRUE]

\* unpackControl(id, repr): the value, and whether unpackFailure() reported
UnpackControl(id, repr) ==
    CASE id.type = "ControlTypeNone" -> [value |-> NoValue, failure |-> FALSE]
      [] id.type = "ControlTypeBool" -> UnpackBool(repr)
      [] id.type = "ControlTypeByte" ->
            [value |-> [type |-> "ControlTypeByte",
                        val |-> ToUint8(Strtol(repr))],
             failure |-> FALSE]
      [] id.type = "ControlTypeInteger32" ->
            [value |-> [type |-> "ControlTypeInteger32", val |-> Strtol(repr)],
             failure |-> FALSE]
      [] id.type = "ControlTypeInteger64" ->
            [value |-> [type |-> "ControlTypeInteger64", val |-> Strtol(repr)],
             failure |-> FALSE]
      [] id.type = "ControlTypeFloat" ->
            [value |-> [type |-> "ControlTypeFloat", val |-> Strtof(repr)],
             failure |-> FALSE]
      [] id.type = "ControlTypeString" ->
            [value |-> [type |-> "ControlTypeString", val |-> repr],
             failure |-> FALSE]
      [] id.type = "ControlTypeRectangle" ->
            [value |-> NoValue, failure |-> FALSE]
      [] id.type = "ControlTypeSize" ->
            [value |-> NoValue, failure |-> FALSE]

\* the name unpackFailure() prints for a control type
UnpackFailureTypeName(type) ==
    CASE type = "ControlTypeNone" -> "none"
      [] type = "ControlTypeBool" -> "bool"
      [] type = "ControlTypeByte" -> "byte"
      [] type = "ControlTypeInteger32" -> "int32"
      [] type = "ControlTypeInteger64" -> "int64"
      [] type = "ControlTypeFloat" -> "float"
      [] type = "ControlTypeString" -> "string"
      [] type = "ControlTypeRectangle" -> "Rectangle"
      [] type = "ControlTypeSize" -> "Size"
      [] OTHER -> "unknown"

-----------------------------------------------------------------------------
(* Events, and the event source the parser pulls from (yaml_parser_parse). *)
(* The source produces the events of a stream of yaml documents: nodes are *)
(* properly nested and a mapping holds key/value pairs.  It may fail at    *)
(* any point (a syntax error in the file); after a failure, and after the  *)
(* end of the stream, it succeeds with an event of type YAML_NO_EVENT.     *)
(* The source carries the file it reads: the scalar texts the file holds   *)
(* (texts) and the most events it holds (size).                            *)

Null == [type |-> "nullptr"]
NoEvent == [type |-> "YAML_NO_EVENT"]
Scalar(t) == [type |-> "YAML_SCALAR_EVENT", value |-> t]
Ev(type) == [type |-> type]

Top(stack) == stack[Len(stack)]
Pop(stack) == SubSeq(stack, 1, Len(stack) - 1)

\* the stack once the node expected at its top has been produced
AfterNode(stack) ==
    LET next == CASE Top(stack) = "document" -> "document-end"
                  [] Top(stack) = "sequence" -> "sequence"
                  [] Top(stack) = "mapping-key" -> "mapping-value"
                  [] Top(stack) = "mapping-value" -> "mapping-key"
    IN  Append(Pop(stack), next)

ExpectsNode(stack) ==
    stack # <<>> /\ Top(stack) \in {"document", "sequence", "mapping-key",
                                    "mapping-value"}

\* the parser before yaml_parser_initialize, for a file of at most `size`
\* events whose scalars are among `texts`
YamlParser(texts, size) ==
    [phase |-> "uninitialized", stack |-> <<>>, produced |-> 0,
     texts |-> texts, size |-> size]

\* the events that may come next, each with the state of the source after it
YamlEvents(y) ==
    CASE y.phase = "initialized" ->
            { [event |-> Ev("YAML_STREAM_START_EVENT"), phase |-> "stream",
               stack |-> <<>>] }
      [] y.phase = "stream" /\ y.stack = <<>> ->
            { [event |-> Ev("YAML_DOCUMENT_START_EVENT"), phase |-> "stream",
               stack |-> <<"document">>],
              [event |-> Ev("YAML_STREAM_END_EVENT"), phase |-> "end",
               stack |-> <<>>] }
      [] y.phase = "stream" /\ y.stack # <<>> ->
            { [event |-> Scalar(t), phase |-> "stream",
               stack |-> AfterNode(y.stack)] :
                 t \in IF ExpectsNode(y.stack) THEN y.texts ELSE {} }
            \cup
            { [event |-> Ev("YAML_ALIAS_EVENT"), phase |-> "stream",
               stack |-> AfterNode(y.stack)] :
                 x \in IF ExpectsNode(y.stack) THEN {1} ELSE {} }
            \cup
            { [event |-> Ev(o[1]), phase |-> "stream",
               stack |-> Append(AfterNode(y.stack), o[2])] :
                 o \in IF ExpectsNode(y.stack) /\ Len(y.stack) < MaxDepth
                       THEN { <<"YAML_MAPPING_START_EVENT", "mapping-key">>,
                              <<"YAML_SEQUENCE_START_EVENT", "sequence">> }
                       ELSE {} }
            \cup
            { [event |-> Ev(o[2]), phase |-> "stream", stack |-> Pop(y.stack)] :
                 o \in { c \in { <<"mapping-key", "YAML_MAPPING_END_EVENT">>,
                                 <<"sequence", "YAML_SEQUENCE_END_EVENT">>,
                                 <<"document-end", "YAML_DOCUMENT_END_EVENT">> } :
                         c[1] = Top(y.stack) } }
      [] OTHER -> {}

\* yaml_parser_parse(&parser_, event): the outcomes of one call
YamlParserParse(y) ==
    IF y.phase \in {"end", "error"}
    THEN { [ok |-> TRUE, event |-> NoEvent, parser |-> y] }
    ELSE { [ok |-> FALSE, event |-> NoEvent,
            parser |-> [y EXCEPT !.phase = "error"]] }
         \cup
         { [ok |-> TRUE, event |-> e.event,
            parser |-> [y EXCEPT !.phase = e.phase, !.stack = e.stack,
                                 !.produced = y.produced + 1]] :
              e \in IF y.produced < y.size THEN YamlEvents(y) ELSE {} }

-----------------------------------------------------------------------------
(* The Event Cursor: nextEvent, checkEvent, eventScalarValue.              *)

NoDiag == [kind |-> "none"]

EventTypeName(type) ==
    CASE type = "YAML_STREAM_START_EVENT" -> "stream-start"
      [] type = "YAML_STREAM_END_EVENT" -> "stream-end"
      [] type = "YAML_DOCUMENT_START_EVENT" -> "document-start"
      [] type = "YAML_DOCUMENT_END_EVENT" -> "document-end"
      [] type = "YAML_ALIAS_EVENT" -> "alias"
      [] type = "YAML_SCALAR_EVENT" -> "scalar"
      [] type = "YAML_SEQUENCE_START_EVENT" -> "sequence-start"
      [] type = "YAML_SEQUENCE_END_EVENT" -> "sequence-end"
      [] type = "YAML_MAPPING_START_EVENT" -> "mapping-start"
      [] type = "YAML_MAPPING_END_EVENT" -> "mapping-end"
      [] OTHER -> "[type 0]"

\* a check that lets every event through
CheckEvent_Always(ev, expectedType) == TRUE

\* checkEvent(event, expectedType): its result, and what it prints
CheckEvent(ev, expectedType) == ev.type = expectedType

CheckEventDiag(ev, expectedType) ==
    IF ev.type # expectedType
    THEN [kind |-> "Expected", expected |-> EventTypeName(expectedType),
          got |-> EventTypeName(ev.type)]
    ELSE NoDiag

\* nextEvent(expectedType) on the outcome r of yaml_parser_parse
NextEvent(r, expectedType) ==
    IF ~r.ok
    THEN [event |-> Null, diag |-> NoDiag, failure |-> "event source"]
    ELSE IF expectedType # "YAML_NO_EVENT" /\ ~CheckEvent(r.event, expectedType)
    THEN [event |-> Null, diag |-> CheckEventDiag(r.event, expectedType),
          failure |-> "grammar"]
    ELSE [event |-> r.event, diag |-> NoDiag, failure |-> "none"]

\* eventScalarValue(event): the texts the call may give.  On an event that
\* is not a scalar the read of data.scalar is undefined: any text.  An
\* event of type YAML_NO_EVENT is all zeroes: the empty text.
EventScalarValue(ev) ==
    CASE ev.type = "YAML_SCALAR_EVENT" -> {ev.value}
      [] ev.type = "YAML_NO_EVENT" -> {Empty}
      [] OTHER -> Texts

\* parseScalar() on the outcome r of yaml_parser_parse: "" on a failure
ParseScalar(r) ==
    LET n == NextEvent(r, "YAML_SCALAR_EVENT") IN
    IF n.event = Null
    THEN [text |-> Empty, event |-> Null, diag |-> n.diag,
          failure |-> n.failure]
    ELSE [text |-> n.event.value, event |-> n.event, diag |-> NoDiag,
          failure |-> "none"]

-----------------------------------------------------------------------------
(* History: the script grammar, followed over the events pulled so far.    *)
(* A well-formed script is stream-start, document-start, one mapping whose *)
(* only key is "frames", its value a sequence of frame mappings, each with *)
(* one key (a decimal frame index) whose value maps distinct known control *)
(* names to value texts.  wf.st is "bad" as soon as the events pulled are  *)
(* not the beginning of such a script; until then wf.table is what the     *)
(* claims expect the frame table to hold for the frame mappings that have  *)
(* been closed.  wf.dup tells that a frame index came a second time, and   *)
(* wf.replaced is the set the table held for it (a well-formed script has  *)
(* no such index).                                                         *)

IsDecimal(s) == s # <<>> /\ \A i \in 1..Len(s) : IsDigit(s[i])
DecimalValue(s) == DigitRun(s, 0)

WfInit ==
    [st |-> "stream-start", table |-> EmptyList, idx |-> 0, cur |-> EmptyList,
     id |-> Null, emptyValue |-> FALSE, emptyFrame |-> FALSE,
     dup |-> FALSE, replaced |-> EmptyList]

\* nothing is remembered of a stream that left the grammar
Bad(w) == [WfInit EXCEPT !.st = "bad"]

WfStep(w, r) ==
    LET e == r.event
        isScalar == e.type = "YAML_SCALAR_EVENT"
        known == {c \in camera_ : isScalar /\ c.name = e.value}
    IN
    IF ~r.ok \/ e.type = "YAML_NO_EVENT" THEN Bad(w)
    ELSE CASE w.st = "stream-start" /\ e.type = "YAML_STREAM_START_EVENT" ->
                [w EXCEPT !.st = "document-start"]
           [] w.st = "document-start" /\ e.type = "YAML_DOCUMENT_START_EVENT" ->
                [w EXCEPT !.st = "top"]
           [] w.st = "top" /\ e.type = "YAML_MAPPING_START_EVENT" ->
                [w EXCEPT !.st = "section"]
           [] w.st = "section" /\ isScalar /\ e.value = Frames ->
                [w EXCEPT !.st = "frames"]
           [] w.st = "frames" /\ e.type = "YAML_SEQUENCE_START_EVENT" ->
                [w EXCEPT !.st = "frame"]
           [] w.st = "frame" /\ e.type = "YAML_MAPPING_START_EVENT" ->
                [w EXCEPT !.st = "index"]
           [] w.st = "frame" /\ e.type = "YAML_SEQUENCE_END_EVENT" ->
                [w EXCEPT !.st = "top-end"]
           [] w.st = "index" /\ isScalar /\ IsDecimal(e.value)
                /\ DecimalValue(e.value) \notin DOMAIN w.table ->
                [w EXCEPT !.st = "controls", !.idx = DecimalValue(e.value)]
           [] w.st = "index" /\ isScalar /\ IsDecimal(e.value)
                /\ DecimalValue(e.value) \in DOMAIN w.table ->
                [w EXCEPT !.st = "controls", !.idx = DecimalValue(e.value),
                          !.dup = TRUE,
                          !.replaced = w.table[DecimalValue(e.value)]]
           [] w.st = "controls" /\ e.type = "YAML_MAPPING_START_EVENT" ->
                [w EXCEPT !.st = "name", !.cur = EmptyList]
           [] w.st = "name" /\ known # {}
                /\ (CHOOSE c \in known : TRUE).id \notin DOMAIN w.cur ->
                [w EXCEPT !.st = "value", !.id = CHOOSE c \in known : TRUE]
           [] w.st = "name" /\ e.type = "YAML_MAPPING_END_EVENT" ->
                [w EXCEPT !.st = "frame-end"]
           [] w.st = "value" /\ isScalar ->
                [w EXCEPT !.st = "name",
                          !.cur = [i \in DOMAIN w.cur \cup {w.id.id} |->
                                     IF i = w.id.id
                                     THEN UnpackControl(w.id, e.value).value
                                     ELSE w.cur[i]],
                          !.id = Null,
                          !.emptyValue = w.emptyValue \/ e.value = Empty]
           [] w.st = "frame-end" /\ e.type = "YAML_MAPPING_END_EVENT" ->
                [w EXCEPT !.st = "frame",
                          !.table = [f \in DOMAIN w.table \cup {w.idx} |->
                                       IF f = w.idx THEN w.cur ELSE w.table[f]],
                          !.cur = EmptyList, !.idx = 0,
                          !.emptyFrame = w.emptyFrame \/ w.cur = EmptyList]
           [] w.st = "top-end" /\ e.type = "YAML_MAPPING_END_EVENT" ->
                [w EXCEPT !.st = "complete"]
           [] OTHER -> Bad(w)

-----------------------------------------------------------------------------
(* The state after construction of the members (line 18).                  *)

InitFor(cameras, texts, size) ==
    /\ camera_ \in cameras
    /\ pc = "fopen"
    /\ valid_ = FALSE
    /\ controls_ = EmptyList
    /\ frameControls_ = EmptyList
    /\ parser_ = YamlParser(texts, size)
    /\ frameId = 0
    /\ controls = EmptyList
    /\ it = Null
    /\ cerr = NoDiag
    /\ result = [called |-> FALSE]
    /\ firstError = "none"
    /\ pulled = [site |-> "none", ok |-> FALSE, event |-> NoEvent]
    /\ wf = WfInit
    /\ unsafeRead = FALSE

\* any of the cameras, and a file over all the texts
Init == InitFor(Cameras, Texts, MaxEvents)

\* the texts of the longer files
FewTexts == {Frames, Txt0, Txt5, NameAwb, True}

\* a camera with a Bool and a Byte control, and a longer file over few
\* texts: long enough for a frame index to come twice
InitLong ==
    InitFor({OfTypes({"ControlTypeBool", "ControlTypeByte"})}, FewTexts,
            MaxEventsLong)

\* the same camera and texts, for the files the parse is followed to its
\* end on
InitFair ==
    InitFor({OfTypes({"ControlTypeBool", "ControlTypeByte"})}, FewTexts,
            MaxEventsFair)

\* the first failure is kept
Failed(kind) == IF firstError = "none" THEN kind ELSE firstError

\* std::cerr keeps its last line when a step prints nothing
Report(diag) == IF diag = NoDiag THEN cerr ELSE diag

\* one call of yaml_parser_parse from the call site `site`, with outcome r
Pull(r, site) ==
    /\ pulled' = [site |-> site, ok |-> r.ok, event |-> r.event]
    /\ wf' = WfStep(wf, r)
    /\ unsafeRead' = (unsafeRead \/ (/\ site = "parseFrame.loop"
                                      /\ r.ok
                                      /\ r.event.type \notin
                                           {"YAML_MAPPING_END_EVENT",
                                            "YAML_SCALAR_EVENT"}))

\* the locals of parseFrame and parseControl, outside these functions
NoLocals ==
    /\ frameId' = 0
    /\ controls' = EmptyList
    /\ it' = Null

\* the constructor after parseScript returned ret (lines 35-40)
Constructed(ret) == ret = "0"

\* parseScript returns ret to the constructor; ParserDeleter (lines 119-123)
\* deletes the parser on the way out
ParseScriptReturns(ret) ==
    /\ pc' = "done"
    /\ valid_' = Constructed(ret)
    /\ parser_' = [YamlParser({}, 0) EXCEPT !.phase = "deleted"]

\* where parseScript goes on after parseFrames returned ret: the call at
\* line 153 drops the value and the loop takes its next turn
ParseFramesReturned(ret) == "parseScript.loop"

\* parseFrames returns ret
ParseFramesReturns(ret) ==
    /\ pc' = ParseFramesReturned(ret)
    /\ NoLocals
    /\ UNCHANGED valid_

\* a loop over the frames that goes on to the next frame when one failed
ParseFrameReturns_NextFrame(ret) ==
    /\ pc' = "parseFrames.loop"
    /\ NoLocals
    /\ UNCHANGED valid_

\* lines 176-178: parseFrames after parseFrame returned ret
ParseFrameReturns(ret) ==
    IF ret # "0"
    THEN ParseFramesReturns(ret)
    ELSE /\ pc' = "parseFrames.loop"
         /\ NoLocals
         /\ UNCHANGED valid_

\* a loop over the controls that ignores the control that failed
ParseControlReturns_Ignore(ret) ==
    IF ret # "0"
    THEN /\ pc' = "parseFrame.loop"
         /\ UNCHANGED <<valid_, frameId, controls, it>>
    ELSE /\ pc' = "parseFrame.loop"
         /\ UNCHANGED <<valid_, frameId, it>>

\* lines 207-209: parseFrame after parseControl returned ret
ParseControlReturns(ret) ==
    IF ret # "0"
    THEN ParseFrameReturns(ret)
    ELSE /\ pc' = "parseFrame.loop"
         /\ UNCHANGED <<valid_, frameId, it>>

-----------------------------------------------------------------------------
(* The constructor and the parser, one action per stretch of code between  *)
(* two calls of yaml_parser_parse.                                         *)

\* lines 20-33: fopen, then the name map of the camera's controls
Open ==
    /\ pc = "fopen"
    /\ \/ /\ cerr' = [kind |-> "Failed to open capture script"]
          /\ firstError' = Failed("open")
          /\ pc' = "done"
          /\ UNCHANGED <<valid_, controls_>>
       \/ /\ controls_' = BuildControls(camera_)
          /\ pc' = "parseScript"
          /\ UNCHANGED <<valid_, cerr, firstError>>
    /\ UNCHANGED <<camera_, frameControls_, parser_, frameId, controls, it,
                   result, pulled, wf, unsafeRead>>

\* the value parseScript returns when yaml_parser_initialize returned 0:
\* `return ret` with ret the 0 that yaml_parser_initialize gave (line 115)
InitializeFailedRet == "0"

\* lines 112-125: yaml_parser_initialize and yaml_parser_set_input_file
ParseScriptInitialize ==
    /\ pc = "parseScript"
    /\ \/ /\ cerr' = [kind |-> "Failed to initialize yaml parser"]
          /\ firstError' = Failed("initialize")
          /\ pc' = "done"
          /\ valid_' = Constructed(InitializeFailedRet)
          /\ UNCHANGED parser_
       \/ /\ parser_' = [parser_ EXCEPT !.phase = "initialized"]
          /\ pc' = "parseScript.stream"
          /\ UNCHANGED <<valid_, cerr, firstError>>
    /\ UNCHANGED <<camera_, controls_, frameControls_, frameId, controls, it,
                   result, pulled, wf, unsafeRead>>

\* parseScript: event = nextEvent(expectedType); if (!event) return -EINVAL
ParseScriptExpect(site, expectedType, then) ==
    /\ pc = site
    /\ \E r \in YamlParserParse(parser_) :
         LET n == NextEvent(r, expectedType) IN
         /\ Pull(r, site)
         /\ cerr' = Report(n.diag)
         /\ IF n.event = Null
            THEN /\ firstError' = Failed(n.failure)
                 /\ ParseScriptReturns("-EINVAL")
            ELSE /\ pc' = then
                 /\ parser_' = r.parser
                 /\ UNCHANGED <<valid_, firstError>>
    /\ UNCHANGED <<camera_, controls_, frameControls_, frameId, controls, it,
                   result>>

\* lines 127-129
ParseScriptStreamStart ==
    ParseScriptExpect("parseScript.stream", "YAML_STREAM_START_EVENT",
                      "parseScript.document")

\* lines 131-133
ParseScriptDocumentStart ==
    ParseScriptExpect("parseScript.document", "YAML_DOCUMENT_START_EVENT",
                      "parseScript.mapping")

\* lines 135-137
ParseScriptMappingStart ==
    ParseScriptExpect("parseScript.mapping", "YAML_MAPPING_START_EVENT",
                      "parseScript.loop")

\* every section handed to parseFrames
IsFramesSection_Any(section) == TRUE

\* line 152: which sections parseScript hands to parseFrames
IsFramesSection(section) == section = Frames

\* lines 139-159: one turn of the loop over the top-level mapping
ParseScriptLoop ==
    /\ pc = "parseScript.loop"
    /\ \E r \in YamlParserParse(parser_) :
         LET n == NextEvent(r, "YAML_NO_EVENT") IN
         /\ Pull(r, "parseScript.loop")
         /\ IF n.event = Null
            THEN /\ firstError' = Failed(n.failure)
                 /\ ParseScriptReturns("-EINVAL")
                 /\ UNCHANGED cerr
            ELSE IF n.event.type = "YAML_MAPPING_END_EVENT"
            THEN /\ ParseScriptReturns("0")
                 /\ UNCHANGED <<cerr, firstError>>
            ELSE IF ~CheckEvent(n.event, "YAML_SCALAR_EVENT")
            THEN /\ cerr' = CheckEventDiag(n.event, "YAML_SCALAR_EVENT")
                 /\ firstError' = Failed("grammar")
                 /\ ParseScriptReturns("-EINVAL")
            ELSE \E section \in EventScalarValue(n.event) :
                 IF IsFramesSection(section)
                 THEN /\ pc' = "parseFrames"
                      /\ parser_' = r.parser
                      /\ UNCHANGED <<valid_, cerr, firstError>>
                 ELSE /\ cerr' = [kind |-> "Unsupported section"]
                      /\ firstError' = Failed("section")
                      /\ ParseScriptReturns("-EINVAL")
    /\ UNCHANGED <<camera_, controls_, frameControls_, frameId, controls, it,
                   result>>

\* lines 164-166: parseFrames expects the start of the sequence
ParseFramesSequenceStart ==
    /\ pc = "parseFrames"
    /\ \E r \in YamlParserParse(parser_) :
         LET n == NextEvent(r, "YAML_SEQUENCE_START_EVENT") IN
         /\ Pull(r, "parseFrames")
         /\ parser_' = r.parser
         /\ cerr' = Report(n.diag)
         /\ IF n.event = Null
            THEN /\ firstError' = Failed(n.failure)
                 /\ ParseFramesReturns("-EINVAL")
            ELSE /\ pc' = "parseFrames.loop"
                 /\ UNCHANGED <<valid_, firstError, frameId, controls, it>>
    /\ UNCHANGED <<camera_, controls_, frameControls_, result>>

\* lines 168-179 and 184-185: one turn of the loop over the frames, up to
\* parseFrame's check of the event it was handed
ParseFramesLoop ==
    /\ pc = "parseFrames.loop"
    /\ \E r \in YamlParserParse(parser_) :
         LET n == NextEvent(r, "YAML_NO_EVENT") IN
         /\ Pull(r, "parseFrames.loop")
         /\ parser_' = r.parser
         /\ IF n.event = Null
            THEN /\ firstError' = Failed(n.failure)
                 /\ ParseFramesReturns("-EINVAL")
                 /\ UNCHANGED cerr
            ELSE IF n.event.type = "YAML_SEQUENCE_END_EVENT"
            THEN /\ ParseFramesReturns("0")
                 /\ UNCHANGED <<cerr, firstError>>
            ELSE IF ~CheckEvent(n.event, "YAML_MAPPING_START_EVENT")
            THEN /\ cerr' = CheckEventDiag(n.event, "YAML_MAPPING_START_EVENT")
                 /\ firstError' = Failed("grammar")
                 /\ ParseFrameReturns("-EINVAL")
            ELSE /\ pc' = "parseFrame.key"
                 /\ UNCHANGED <<valid_, cerr, firstError, frameId, controls, it>>
    /\ UNCHANGED <<camera_, controls_, frameControls_, result>>

\* a key without a number at its beginning read as -1
FrameIdOf_MinusOne(key) ==
    IF key # Empty /\ IsDigit(Head(key)) THEN Atoi(key) ELSE 0 - 1

\* the key read from its second character on
FrameIdOf_SkipFirst(key) == IF key = Empty THEN 0 ELSE Atoi(Tail(key))

\* line 191: unsigned int frameId = atoi(key.c_str()).  The texts of the
\* model carry no sign, so the conversion to unsigned changes nothing.
FrameIdOf(key) == Atoi(key)

\* lines 187-191: the key of the frame mapping
ParseFrameKey ==
    /\ pc = "parseFrame.key"
    /\ \E r \in YamlParserParse(parser_) :
         LET key == ParseScalar(r) IN
         /\ Pull(r, "parseFrame.key")
         /\ parser_' = r.parser
         /\ cerr' = Report(key.diag)
         /\ IF key.text = Empty
            THEN /\ firstError' = Failed(IF key.failure = "none"
                                         THEN "empty scalar" ELSE key.failure)
                 /\ ParseFrameReturns("-EINVAL")
            ELSE /\ frameId' = FrameIdOf(key.text)
                 /\ pc' = "parseFrame.mapping"
                 /\ UNCHANGED <<valid_, firstError, controls, it>>
    /\ UNCHANGED <<camera_, controls_, frameControls_, result>>

\* lines 193-197: the start of the controls mapping, and an empty list
ParseFrameMappingStart ==
    /\ pc = "parseFrame.mapping"
    /\ \E r \in YamlParserParse(parser_) :
         LET n == NextEvent(r, "YAML_MAPPING_START_EVENT") IN
         /\ Pull(r, "parseFrame.mapping")
         /\ parser_' = r.parser
         /\ cerr' = Report(n.diag)
         /\ IF n.event = Null
            THEN /\ firstError' = Failed(n.failure)
                 /\ ParseFrameReturns("-EINVAL")
            ELSE /\ controls' = EmptyList
                 /\ pc' = "parseFrame.loop"
                 /\ UNCHANGED <<valid_, firstError, frameId, it>>
    /\ UNCHANGED <<camera_, controls_, frameControls_, result>>

\* a store that adds the controls of the list to those the frame has
StoreFrame_Merge(table, frame, list) ==
    [f \in DOMAIN table \cup {frame} |->
       IF f # frame THEN table[f]
       ELSE IF f \notin DOMAIN table THEN list
       ELSE [i \in DOMAIN table[f] \cup DOMAIN list |->
               IF i \in DOMAIN list THEN list[i] ELSE table[f][i]]]

\* the store left out
StoreFrame_NoStore(table, frame, list) == table

\* line 212: frameControls_[frameId] = std::move(controls)
StoreFrame(table, frame, list) ==
    [f \in DOMAIN table \cup {frame} |-> IF f = frame THEN list ELSE table[f]]

\* a list that takes no empty value
ControlListSet_SkipEmpty(list, id, val) ==
    IF val = NoValue
    THEN list
    ELSE [i \in DOMAIN list \cup {id} |-> IF i = id THEN val ELSE list[i]]

\* line 241: controls.set(controlId->id(), val) on a list without validator
ControlListSet(list, id, val) ==
    [i \in DOMAIN list \cup {id} |-> IF i = id THEN val ELSE list[i]]

\* lines 199-212 and 224-233: one turn of the loop over the controls of a
\* frame, up to parseControl's lookup of the name
ParseFrameLoop ==
    /\ pc = "parseFrame.loop"
    /\ \E r \in YamlParserParse(parser_) :
         LET n == NextEvent(r, "YAML_NO_EVENT") IN
         /\ Pull(r, "parseFrame.loop")
         /\ parser_' = r.parser
         /\ IF n.event = Null
            THEN /\ firstError' = Failed(n.failure)
                 /\ ParseFrameReturns("-EINVAL")
                 /\ UNCHANGED <<cerr, frameControls_>>
            ELSE IF n.event.type = "YAML_MAPPING_END_EVENT"
            THEN /\ frameControls_' = StoreFrame(frameControls_, frameId, controls)
                 /\ pc' = "parseFrame.end"
                 /\ controls' = EmptyList
                 /\ UNCHANGED <<valid_, cerr, firstError, frameId, it>>
            ELSE \E name \in EventScalarValue(n.event) :
                 IF name = Empty
                 THEN /\ firstError' = Failed("empty scalar")
                      /\ ParseControlReturns("-EINVAL")
                      /\ UNCHANGED <<cerr, frameControls_>>
                 ELSE IF name \notin DOMAIN controls_
                 THEN /\ cerr' = [kind |-> "Unsupported control"]
                      /\ firstError' = Failed("control")
                      /\ ParseControlReturns("-EINVAL")
                      /\ UNCHANGED frameControls_
                 ELSE /\ it' = controls_[name]
                      /\ pc' = "parseControl.value"
                      /\ UNCHANGED <<valid_, cerr, firstError, frameControls_,
                                     frameId, controls>>
    /\ UNCHANGED <<camera_, controls_, result>>

\* lines 235-243: the value of a control, decoded and put in the list
ParseControlValue ==
    /\ pc = "parseControl.value"
    /\ \E r \in YamlParserParse(parser_) :
         LET value == ParseScalar(r) IN
         /\ Pull(r, "parseControl.value")
         /\ parser_' = r.parser
         /\ IF value.text = Empty
            THEN /\ cerr' = Report(value.diag)
                 /\ firstError' = Failed(IF value.failure = "none"
                                         THEN "empty scalar" ELSE value.failure)
                 /\ ParseControlReturns("-EINVAL")
            ELSE LET val == UnpackControl(it, value.text) IN
                 /\ cerr' = IF val.failure
                            THEN [kind |-> "Unsupported control value",
                                  type |-> UnpackFailureTypeName(it.type),
                                  name |-> it.name]
                            ELSE cerr
                 /\ controls' = ControlListSet(controls, it.id, val.value)
                 /\ ParseControlReturns("0")
                 /\ UNCHANGED firstError
    /\ UNCHANGED <<camera_, controls_, frameControls_, result>>

\* lines 214-218: the end of the frame mapping
ParseFrameEnd ==
    /\ pc = "parseFrame.end"
    /\ \E r \in YamlParserParse(parser_) :
         LET n == NextEvent(r, "YAML_MAPPING_END_EVENT") IN
         /\ Pull(r, "parseFrame.end")
         /\ parser_' = r.parser
         /\ cerr' = Report(n.diag)
         /\ IF n.event = Null
            THEN /\ firstError' = Failed(n.failure)
                 /\ ParseFrameReturns("-EINVAL")
            ELSE /\ ParseFrameReturns("0")
                 /\ UNCHANGED firstError
    /\ UNCHANGED <<camera_, controls_, frameControls_, result>>

-----------------------------------------------------------------------------
(* The query, once the object is constructed.                              *)

\* a lookup that hides the table of an invalid script
FrameControlsOf_OnlyWhenValid(frame) ==
    IF valid_ /\ frame \in DOMAIN frameControls_
    THEN frameControls_[frame]
    ELSE EmptyList

\* a lookup of the frame after the one asked for
FrameControlsOf_OffByOne(frame) ==
    IF frame + 1 \in DOMAIN frameControls_
    THEN frameControls_[frame + 1]
    ELSE EmptyList

\* lines 46-52: the list found for the frame, or the static empty list
FrameControlsOf(frame) ==
    IF frame \in DOMAIN frameControls_ THEN frameControls_[frame] ELSE EmptyList

\* the frame numbers the model queries
QueryFrames == 0..MaxFrame \cup {FrameIdOf(t) : t \in Texts}

\* a lookup with frameControls_[frame], which adds the frame it misses
FrameControls_Inserting ==
    /\ pc = "done"
    /\ \E frame \in QueryFrames :
         /\ result' = [called |-> TRUE, frame |-> frame,
                       controls |-> FrameControlsOf(frame)]
         /\ frameControls_' =
              IF frame \in DOMAIN frameControls_
              THEN frameControls_
              ELSE StoreFrame(frameControls_, frame, EmptyList)
    /\ UNCHANGED <<camera_, pc, valid_, controls_, parser_, frameId, controls,
                   it, cerr, firstError, pulled, wf, unsafeRead>>

\* lines 44-53: frameControls(frame)
FrameControls ==
    /\ pc = "done"
    /\ \E frame \in QueryFrames :
         result' = [called |-> TRUE, frame |-> frame,
                    controls |-> FrameControlsOf(frame)]
    /\ UNCHANGED <<camera_, pc, valid_, controls_, frameControls_, parser_,
                   frameId, controls, it, cerr, firstError, pulled, wf,
                   unsafeRead>>

\* isValid()
IsValid == valid_

Next ==
    \/ Open
    \/ ParseScriptInitialize
    \/ ParseScriptStreamStart
    \/ ParseScriptDocumentStart
    \/ ParseScriptMappingStart
    \/ ParseScriptLoop
    \/ ParseFramesSequenceStart
    \/ ParseFramesLoop
    \/ ParseFrameKey
    \/ ParseFrameMappingStart
    \/ ParseFrameLoop
    \/ ParseControlValue
    \/ ParseFrameEnd
    \/ FrameControls

Spec == Init /\ [][Next]_vars

\* the same program on the longer files
SpecLong == InitLong /\ [][Next]_vars

\* the steps of the constructor
Construct ==
    \/ Open
    \/ ParseScriptInitialize
    \/ ParseScriptStreamStart
    \/ ParseScriptDocumentStart
    \/ ParseScriptMappingStart
    \/ ParseScriptLoop
    \/ ParseFramesSequenceStart
    \/ ParseFramesLoop
    \/ ParseFrameKey
    \/ ParseFrameMappingStart
    \/ ParseFrameLoop
    \/ ParseControlValue
    \/ ParseFrameEnd

\* the constructor is sequential code on one thread: while it has not
\* returned, its next step is taken
FairSpec == InitFair /\ [][Next]_vars /\ WF_vars(Construct)

-----------------------------------------------------------------------------
(* Claims.                                                                 *)

Constructed_Done == pc = "done"

\* the events pulled are the beginning of a well-formed script
WellFormedSoFar == wf.st \notin {"stream-start", "bad"} /\ ~wf.dup

\* C1: if a step of the parse fails with a grammar failure (an event of the
\* wrong kind) or a failure of the event source, in parseScript,
\* parseFrames, parseFrame or parseControl, the constructed script is not
\* valid.
C1_StructuralFailureInvalidates ==
    (Constructed_Done /\ firstError \in {"grammar", "event source"}
        /\ ~unsafeRead)
    => ~IsValid

\* C2: if the controls mapping of a frame holds a control name that is not
\* in controls_, the constructed script is not valid, whatever follows.
C2_UnknownControlInvalidates ==
    (Constructed_Done /\ firstError = "control" /\ ~unsafeRead) => ~IsValid

\* C3 as stated: whenever the constructed script is not valid,
\* frameControls(f) returns an empty list for every frame f.
C3_InvalidScriptExposesNothing ==
    (Constructed_Done /\ ~IsValid /\ ~unsafeRead /\ result.called)
    => result.controls = EmptyList

\* C3, amended: whenever the constructed script is not valid,
\* frameControls(f) returns an empty list for every frame f that is not in
\* the frame table, and the list the table holds for a frame stored before
\* the failure.
C3_InvalidScriptExposesTable ==
    (Constructed_Done /\ ~IsValid /\ result.called)
    => result.controls =
         IF result.frame \in DOMAIN frameControls_
         THEN frameControls_[result.frame]
         ELSE EmptyList

C3_Witness ==
    /\ Constructed_Done
    /\ ~IsValid
    /\ result.called
    /\ result.controls # EmptyList

\* C4 as stated: for every well-formed script, construction ends valid and
\* the frame table maps each scripted frame index to exactly the decoded
\* controls listed for it, and holds no other index.  (Construction ends
\* on the events pulled; they are the beginning of a well-formed script,
\* and every such beginning can be completed to one.)
C4_WellFormedScriptParses ==
    (Constructed_Done /\ WellFormedSoFar)
    => /\ wf.st = "complete"
       /\ IsValid
       /\ frameControls_ = wf.table

\* C4, amended: the same for every well-formed script none of whose control
\* values is the empty text.
C4_WellFormedNonEmptyValuesParses ==
    (Constructed_Done /\ WellFormedSoFar /\ ~wf.emptyValue)
    => /\ wf.st = "complete"
       /\ IsValid
       /\ frameControls_ = wf.table

C4_Witness ==
    /\ Constructed_Done
    /\ wf.st = "complete"
    /\ ~wf.emptyValue
    /\ IsValid
    /\ \E f \in DOMAIN wf.table : f # 0 /\ wf.table[f] # EmptyList

\* C5 as stated: for every well-formed script, after construction
\* frameControls returns a non-empty list for exactly the scripted frame
\* indices and an empty list for every other index.
C5_NonEmptyExactlyForScripted ==
    (Constructed_Done /\ WellFormedSoFar /\ result.called)
    => /\ wf.st = "complete"
       /\ (result.controls # EmptyList <=> result.frame \in DOMAIN wf.table)

\* C5, amended: the same for every well-formed script in which every frame
\* lists at least one control and no control value is the empty text.
C5_NonEmptyExactlyForScriptedWithControls ==
    (Constructed_Done /\ WellFormedSoFar /\ ~wf.emptyValue /\ ~wf.emptyFrame
        /\ result.called)
    => /\ wf.st = "complete"
       /\ (result.controls # EmptyList <=> result.frame \in DOMAIN wf.table)

C5_Witness ==
    /\ Constructed_Done
    /\ wf.st = "complete"
    /\ ~wf.emptyValue
    /\ ~wf.emptyFrame
    /\ result.called
    /\ result.controls # EmptyList

\* C6: frameControls(f) gives an empty list for every frame that was never
\* stored in the frame table, and the stored list for every stored frame.
C6_FrameControlsFindsStored ==
    result.called
    => /\ result.frame \notin DOMAIN frameControls_
          => result.controls = EmptyList
       /\ result.frame \in DOMAIN frameControls_
          => result.controls = frameControls_[result.frame]

C6_Witness ==
    /\ result.called
    /\ result.frame \in DOMAIN frameControls_
    /\ result.controls # EmptyList
    /\ \E f \in QueryFrames : f \notin DOMAIN frameControls_

\* C7: if fopen fails, or yaml_parser_initialize fails, the constructed
\* script is not valid.
C7_OpenOrInitializeFailureInvalidates ==
    (Constructed_Done /\ firstError \in {"open", "initialize"}) => ~IsValid

\* C8: if the loop of parseScript over the top-level mapping reads a scalar
\* whose text is not "frames", parseScript reports an unsupported section
\* and returns, and the script is not valid; the section is not skipped.
C8_UnsupportedSectionAborts ==
    (/\ pulled.site = "parseScript.loop"
     /\ pulled.ok
     /\ pulled.event.type = "YAML_SCALAR_EVENT"
     /\ pulled.event.value # Frames)
    => /\ Constructed_Done
       /\ ~IsValid
       /\ cerr = [kind |-> "Unsupported section"]

C8_Witness ==
    /\ pulled.site = "parseScript.loop"
    /\ pulled.ok
    /\ pulled.event = Scalar(Shots)
    /\ Constructed_Done

\* the first three calls of nextEvent and the event each expects
Header ==
    << <<"parseScript.stream", "YAML_STREAM_START_EVENT">>,
       <<"parseScript.document", "YAML_DOCUMENT_START_EVENT">>,
       <<"parseScript.mapping", "YAML_MAPPING_START_EVENT">> >>

\* C9: if one of the first three events is not, in order, stream-start,
\* document-start, mapping-start, parseScript returns at that event with a
\* diagnostic naming the expected and the actual kind, no frame is stored
\* and the script is not valid.
C9_HeaderMismatchAborts ==
    \A i \in 1..Len(Header) :
      (/\ pulled.site = Header[i][1]
       /\ pulled.ok
       /\ pulled.event.type # Header[i][2])
      => /\ Constructed_Done
         /\ ~IsValid
         /\ frameControls_ = EmptyList
         /\ cerr = [kind |-> "Expected",
                    expected |-> EventTypeName(Header[i][2]),
                    got |-> EventTypeName(pulled.event.type)]

C9_Witness ==
    /\ pulled.site = "parseScript.mapping"
    /\ pulled.ok
    /\ pulled.event.type = "YAML_SCALAR_EVENT"
    /\ Constructed_Done

\* what C10 expects of a Bool control given the text t
BoolOf(t) ==
    IF t = True THEN [type |-> "ControlTypeBool", val |-> TRUE]
    ELSE IF t = False THEN [type |-> "ControlTypeBool", val |-> FALSE]
    ELSE NoValue

PulledScalarAt(site) ==
    /\ pulled.site = site
    /\ pulled.ok
    /\ pulled.event.type = "YAML_SCALAR_EVENT"

\* a decimal integer literal: digits, with or without a minus sign
IsLiteral(t) ==
    \/ IsDecimal(t)
    \/ (t # <<>> /\ Head(t) = "-" /\ IsDecimal(Tail(t)))

LiteralValue(t) ==
    IF Head(t) = "-" THEN 0 - DecimalValue(Tail(t)) ELSE DecimalValue(t)

\* a text without any digit
NoDigit(t) == \A i \in 1..Len(t) : ~IsDigit(t[i])

NumericControls ==
    OfTypes({"ControlTypeByte", "ControlTypeInteger32", "ControlTypeInteger64"})

\* the texts the decoder is tried on, besides those the event source gives
DecodeTexts ==
    Texts \cup { <<"-", "5">>, <<"2", "5", "5">>, <<"2", "5", "6">>,
                 <<"-", "3", "0", "0">>, <<"-">>, <<"x", "y">> }

\* the number C11 expects for the text t: the value of a literal, 0 for a
\* text without digits
NumberOf(t) == IF IsLiteral(t) THEN LiteralValue(t) ELSE 0

\* the same, as the code's Byte holds it: modulo 256
WrappedNumberOf(type, t) ==
    IF type = "ControlTypeByte" THEN NumberOf(t) % 256 ELSE NumberOf(t)

\* C11 as stated: when parseControl has decoded the value text of a Byte,
\* Int32 or Int64 control, the parse goes on and the control is in the list
\* of the frame with exactly the number the text is a literal of, or with 0
\* if the text holds no digit.
C11_NumericDecodeExact ==
    (/\ PulledScalarAt("parseControl.value")
     /\ pulled.event.value # Empty
     /\ it # Null
     /\ it \in NumericControls
     /\ (IsLiteral(pulled.event.value) \/ NoDigit(pulled.event.value)))
    => /\ pc = "parseFrame.loop"
       /\ it.id \in DOMAIN controls
       /\ controls[it.id] =
            [type |-> it.type, val |-> NumberOf(pulled.event.value)]

\* C11, amended: the same with the number of a Byte control taken modulo
\* 256; and the decoder gives that value, without a diagnostic, for every
\* literal and every text without digits it is tried on (the decoder has no
\* state: it is tried once, before the file is opened).
C11_NumericDecodeWrapsByte ==
    /\ pc = "fopen"
       => \A c \in NumericControls : \A t \in DecodeTexts :
            (IsLiteral(t) \/ NoDigit(t))
            => /\ UnpackControl(c, t).value =
                    [type |-> c.type, val |-> WrappedNumberOf(c.type, t)]
               /\ ~UnpackControl(c, t).failure
    /\ (/\ PulledScalarAt("parseControl.value")
        /\ pulled.event.value # Empty
        /\ it # Null
        /\ it \in NumericControls
        /\ (IsLiteral(pulled.event.value) \/ NoDigit(pulled.event.value)))
       => /\ pc = "parseFrame.loop"
          /\ it.id \in DOMAIN controls
          /\ controls[it.id] =
               [type |-> it.type,
                val |-> WrappedNumberOf(it.type, pulled.event.value)]

C11_Witness ==
    /\ PulledScalarAt("parseControl.value")
    /\ pulled.event.value = Txt300
    /\ it # Null
    /\ it.type = "ControlTypeByte"
    /\ pc = "parseFrame.loop"
    /\ controls[it.id] = [type |-> "ControlTypeByte", val |-> 44]

\* C12: eventScalarValue is applied only to an event that was checked to be
\* a scalar; an event of the controls loop of parseFrame that is neither
\* mapping-end nor a scalar is rejected as a grammar failure (with the
\* diagnostic of checkEvent) and parseFrame returns.
C12_ScalarValueOnlyOfScalars ==
    /\ ~unsafeRead
    /\ (/\ pulled.site = "parseFrame.loop"
        /\ pulled.ok
        /\ pulled.event.type \notin {"YAML_MAPPING_END_EVENT",
                                     "YAML_SCALAR_EVENT"})
       => /\ pc \notin {"parseFrame.loop", "parseControl.value"}
          /\ cerr = [kind |-> "Expected", expected |-> "scalar",
                     got |-> EventTypeName(pulled.event.type)]

\* C13: a frame is stored only once the mapping-end that closes the frame
\* mapping has been pulled and confirmed: while parseFrame still waits for
\* that event (the next one may be a second key), the frame table holds the
\* frames closed before and has no entry for the frame being read.
C13_StoredAfterFrameEnd ==
    (pc = "parseFrame.end" /\ WellFormedSoFar)
    => /\ wf.idx \notin DOMAIN frameControls_
       /\ frameControls_ = wf.table

\* C14 as stated: whatever the text of the scalar that follows a known
\* control name (the empty text too), parseControl succeeds: the parse goes
\* on in the loop of parseFrame with the control in the list of the frame;
\* a String control holds the text itself.
C14_ValueTextNeverAborts ==
    PulledScalarAt("parseControl.value")
    => /\ pc = "parseFrame.loop"
       /\ it # Null
       /\ it.id \in DOMAIN controls
       /\ it.type = "ControlTypeString"
          => controls[it.id] = [type |-> "ControlTypeString",
                                val |-> pulled.event.value]

\* C14, amended: the same for every text but the empty one; on the empty
\* text parseControl fails as if no scalar had followed the name: parseFrame
\* returns with its list dropped and the failure recorded.
C14_NonEmptyValueTextNeverAborts ==
    PulledScalarAt("parseControl.value")
    => IF pulled.event.value # Empty
       THEN /\ pc = "parseFrame.loop"
            /\ it # Null
            /\ it.id \in DOMAIN controls
            /\ controls[it.id] = UnpackControl(it, pulled.event.value).value
            /\ it.type = "ControlTypeString"
               => controls[it.id] = [type |-> "ControlTypeString",
                                     val |-> pulled.event.value]
       ELSE /\ pc = "parseScript.loop"
            /\ controls = EmptyList
            /\ firstError # "none"

C14_Witness ==
    /\ PulledScalarAt("parseControl.value")
    /\ pulled.event.value = Shots
    /\ pc = "parseFrame.loop"
    /\ it # Null
    /\ it.type = "ControlTypeString"
    /\ controls[it.id] = [type |-> "ControlTypeString", val |-> Shots]

\* C15 as stated: a frame key without any digit (the empty text too) gives
\* frame 0 and parseFrame goes on to the controls mapping.
C15_NonNumericKeyIsFrameZero ==
    (PulledScalarAt("parseFrame.key") /\ NoDigit(pulled.event.value))
    => /\ pc = "parseFrame.mapping"
       /\ frameId = 0

\* C15, amended: the same for every such key but the empty text; on the
\* empty text parseFrame fails as if no scalar had been there.
C15_NonEmptyNonNumericKeyIsFrameZero ==
    (PulledScalarAt("parseFrame.key") /\ NoDigit(pulled.event.value))
    => IF pulled.event.value # Empty
       THEN /\ pc = "parseFrame.mapping"
            /\ frameId = 0
       ELSE /\ pc = "parseScript.loop"
            /\ firstError # "none"

C15_Witness ==
    /\ PulledScalarAt("parseFrame.key")
    /\ pulled.event.value = True
    /\ pc = "parseFrame.mapping"
    /\ frameId = 0

\* C16: when a frame index comes a second time in an otherwise well-formed
\* script, then once the second entry is parsed the frame table holds for
\* that index exactly the controls of the second entry (nothing of the first
\* one is kept) and the other indices hold what they held.  (wf.table is
\* that table: each entry that closes replaces the set of its index.)
C16_LastWriteWins ==
    (/\ wf.st \notin {"stream-start", "bad"}
     /\ wf.dup
     /\ ~wf.emptyValue
     /\ pc # "parseFrame.end")
    => frameControls_ = wf.table

C16_Witness ==
    /\ wf.st = "frame"
    /\ wf.dup
    /\ ~wf.emptyValue
    /\ pc = "parseFrames.loop"
    /\ wf.replaced # EmptyList
    /\ \E f \in DOMAIN frameControls_ : \E g \in DOMAIN frameControls_ :
         /\ f # g
         /\ frameControls_[f] = EmptyList
         /\ frameControls_[g] = EmptyList

\* the value v is empty or of the variant of a control of the given type
HoldsVariant(type, v) ==
    \/ v = NoValue
    \/ /\ type \notin {"ControlTypeNone", "ControlTypeRectangle",
                        "ControlTypeSize"}
       /\ DOMAIN v = {"type", "val"}
       /\ v.type = type
       /\ CASE type = "ControlTypeBool" -> v.val \in BOOLEAN
            [] type = "ControlTypeByte" -> v.val \in 0..255
            [] type = "ControlTypeInteger32" -> v.val \in Int
            [] type = "ControlTypeInteger64" -> v.val \in Int
            [] type = "ControlTypeFloat" -> v.val \in Int
            [] type = "ControlTypeString" -> v.val \in Texts

\* C17: every value in the frame table is stored under the id of a control
\* of the camera and is empty or of the variant of that control's type
\* (the floats of the model are whole numbers); a control of type None,
\* Rectangle or Size holds the empty value.
C17_ValuesMatchDeclaredType ==
    \A f \in DOMAIN frameControls_ : \A id \in DOMAIN frameControls_[f] :
      \E c \in camera_ :
        /\ c.id = id
        /\ HoldsVariant(c.type, frameControls_[f][id])

C17_Witness ==
    \E f \in DOMAIN frameControls_ :
      \E b \in OfTypes({"ControlTypeBool"}) :
        \E y \in OfTypes({"ControlTypeByte"}) :
          /\ {b.id, y.id} \subseteq DOMAIN frameControls_[f]
          /\ frameControls_[f][b.id] = [type |-> "ControlTypeBool",
                                        val |-> TRUE]
          /\ frameControls_[f][y.id] = [type |-> "ControlTypeByte",
                                        val |-> 44]


\* the loops of the parser, by depth: a loop is left for one of lower depth
LoopDepth ==
    [p \in {"done", "parseScript.loop", "parseFrames", "parseFrames.loop",
            "parseFrame.key", "parseFrame.mapping", "parseFrame.loop",
            "parseControl.value", "parseFrame.end"} |->
       CASE p = "done" -> 0
         [] p = "parseScript.loop" -> 1
         [] p \in {"parseFrames", "parseFrames.loop"} -> 2
         [] OTHER -> 3]

\* the event source gives no more events
SourceOver == parser_.phase \in {"end", "error"}

\* a step of the parser that does not return to the constructor pulls one
\* event the source had not given before, or finds the source failing; once
\* the source is over, the step leaves the loop it is in
PullsNewEvent ==
    (pc \in DOMAIN LoopDepth /\ pc' \in DOMAIN LoopDepth /\ pc # "done")
    => /\ pc' # "done"
          => \/ parser_'.produced = parser_.produced + 1
             \/ /\ parser_'.produced = parser_.produced
                /\ SourceOver'
       /\ SourceOver => LoopDepth[pc'] < LoopDepth[pc]

\* C18: the parse is one forward pass that ends: on every file (a finite
\* stream of events, after which the source fails or gives no event),
\* construction reaches its end, valid or not; each step of the loops of
\* parseScript, parseFrames and parseFrame pulls a new event, and none is
\* pulled twice.
C18_ParseTerminates ==
    /\ <>(pc = "done")
    /\ [][PullsNewEvent]_vars

C18_Witness ==
    /\ pc = "done"
    /\ pulled.site = "parseScript.loop"
    /\ pulled.ok
    /\ pulled.event = NoEvent
    /\ frameControls_ # EmptyList

\* C19: once construction has finished nothing changes the object:
\* frameControls(f), for a stored or a missing frame f, leaves the frame
\* table, the name map and the valid flag as they are (a frame that is
\* missing is not added).
C19_QueriesChangeNothing ==
    [][pc = "done" => UNCHANGED <<frameControls_, controls_, valid_, camera_,
                                  pc>>]_vars

C19_Witness ==
    /\ pc = "done"
    /\ result.called
    /\ result.frame \notin DOMAIN frameControls_
    /\ frameControls_ # EmptyList
    /\ valid_

\* where parseFrame is while it reads the controls of a frame
InControls == pc \in {"parseFrame.loop", "parseControl.value"}

\* the last event pulled made parseControl fail: a control name that is
\* empty or not a name of controls_, or a missing or empty value; or the
\* event source failed in the loop over the controls
ControlFailed ==
    \/ /\ PulledScalarAt("parseFrame.loop")
       /\ pulled.event.value \notin DOMAIN controls_
    \/ /\ pulled.site = "parseControl.value"
       /\ ~(PulledScalarAt("parseControl.value") /\ pulled.event.value # Empty)
    \/ /\ pulled.site = "parseFrame.loop"
       /\ ~pulled.ok

\* the table changes only when the loop over the controls reads mapping-end,
\* and then takes the list of the frame as it is
StoresAtMappingEnd ==
    frameControls_' # frameControls_
    => /\ pc = "parseFrame.loop"
       /\ pulled'.site = "parseFrame.loop"
       /\ pulled'.ok
       /\ pulled'.event.type = "YAML_MAPPING_END_EVENT"
       /\ frameControls_' = StoreFrame(frameControls_, frameId, controls)

\* the list of a frame only gets the control of a call of parseControl that
\* succeeded: a name of controls_ and a scalar after it
GrowsBySucceededControl ==
    (controls' # controls /\ controls' # EmptyList)
    => /\ pc = "parseControl.value"
       /\ pulled'.site = "parseControl.value"
       /\ pulled'.ok
       /\ pulled'.event.type = "YAML_SCALAR_EVENT"
       /\ pulled'.event.value # Empty
       /\ \E n \in DOMAIN controls_ : controls_[n] = it
       /\ controls' = ControlListSet(controls, it.id,
                                     UnpackControl(it, pulled'.event.value).value)

====
